---- MODULE Spec2Model ----
(***************************************************************************)
(* Model of recording.py (Piper GPL Training Recorder): the RecorderApp    *)
(* capture state machine, the metadata ledger (in memory and on disk),     *)
(* the wav directory and the ReviewWindow snapshot / delete workflow.      *)
(*                                                                         *)
(* Strings are sequences of one-character strings; audio samples are       *)
(* integers in thousandths of full scale (200 stands for 0.2).             *)
(***************************************************************************)
EXTENDS Integers, Sequences, FiniteSets, TLC

VARIABLES
    sentences,    \* RecorderApp.sentences: the prompt list of this session
    index,        \* RecorderApp.index: the cursor (0-based)
    recording,    \* RecorderApp.recording
    audio_data,   \* RecorderApp.audio_data: sequence of blocks
    stream,       \* RecorderApp.stream: "None", "open", "active" or "closed"
    openStreams,  \* input streams opened on the device and not yet closed
    metadata,     \* RecorderApp.metadata: sequence of <<filename, sentence>>
    metaFile,     \* lines of METADATA_FILE (absent file = no lines)
    wavs,         \* names of the files present in WAV_DIR
    reviews,      \* the ReviewWindow objects, by window
    outcome,      \* what the last command reported (dialog / status line)
    fault,        \* the environment fault that hit the last command
    pendingTicks, \* update_meter callbacks scheduled with master.after
    led,          \* level_status_var: "Ready" or the band the meter shows
    returned,     \* what trim_silence or normalize_audio returned last
    startIndex    \* the cursor when the last capture was started (history)

vars == <<sentences, index, recording, audio_data, stream, openStreams,
          metadata, metaFile, wavs, reviews, outcome, fault, pendingTicks, led,
          returned, startIndex>>

meterVars == <<pendingTicks, led>>

-----------------------------------------------------------------------------
(* Bounds of the model *)

NumPrompts == 2        \* length of the prompt list
MaxBlocks == 1         \* blocks delivered per capture
MaxRows == NumPrompts + 1   \* captures stop when the ledger has this many rows
MaxLines == 3          \* lines of a metadata.csv found at start
MaxSamples == 3        \* samples of a short buffer handed to the audio functions
MaxTicks == 2          \* captures stop when this many meter ticks are pending

(* Program constants; levels in thousandths *)
SAMPLE_RATE == 22050
LEVEL_THRESHOLD_LOW == 20
LEVEL_THRESHOLD_HIGH == 900
SILENCE_THRESHOLD == 10

Windows == {"w1", "w2"}
ListTags == {"A", "B"}
Blocks == {<<5>>, <<200>>, <<950>>}
Faults == {"none", "wav_write", "meta_open", "meta_write", "remove",
           "dev_open", "dev_start"}

-----------------------------------------------------------------------------
(* Strings *)

DigitChar == <<"0", "1", "2", "3", "4", "5", "6", "7", "8", "9">>

CharCode(c) ==
    CASE c = "." -> 46
      [] c = "0" -> 48 [] c = "1" -> 49 [] c = "2" -> 50 [] c = "3" -> 51
      [] c = "4" -> 52 [] c = "5" -> 53 [] c = "6" -> 54 [] c = "7" -> 55
      [] c = "8" -> 56 [] c = "9" -> 57
      [] c = "A" -> 65 [] c = "B" -> 66
      [] c = "a" -> 97 [] c = "v" -> 118 [] c = "w" -> 119
      [] c = "|" -> 124

RECURSIVE Digits(_)
Digits(n) ==
    IF n < 10 THEN <<DigitChar[n + 1]>>
    ELSE Digits(n \div 10) \o <<DigitChar[(n % 10) + 1]>>

RECURSIVE ZeroPad(_, _)
ZeroPad(s, width) == IF Len(s) >= width THEN s ELSE ZeroPad(<<"0">> \o s, width)

\* f"{idx + 1:03d}.wav"
Filename(idx) == ZeroPad(Digits(idx + 1), 3) \o <<".", "w", "a", "v">>

\* Python's str <: code point by code point, a proper prefix is smaller
RECURSIVE StrLess(_, _)
StrLess(a, b) ==
    IF b = <<>> THEN FALSE
    ELSE IF a = <<>> THEN TRUE
    ELSE IF CharCode(Head(a)) # CharCode(Head(b))
         THEN CharCode(Head(a)) < CharCode(Head(b))
         ELSE StrLess(Tail(a), Tail(b))

Front(s) == SubSeq(s, 1, Len(s) - 1)
Last(s) == s[Len(s)]

-----------------------------------------------------------------------------
(* The prompt list *)

PromptList(tag) == [i \in 1..NumPrompts |-> <<tag, DigitChar[(i % 10) + 1]>>]

-----------------------------------------------------------------------------
(* Ledger *)

RECURSIVE SortedInsert(_, _)
SortedInsert(s, r) ==
    IF s = <<>> THEN <<r>>
    ELSE IF StrLess(r[1], Last(s)[1])
         THEN SortedInsert(Front(s), r) \o <<Last(s)>>
         ELSE s \o <<r>>

\* sorted(rows, key=lambda x: x[0]): stable
RECURSIVE SortedByFilename(_)
SortedByFilename(rows) ==
    IF rows = <<>> THEN <<>>
    ELSE SortedInsert(SortedByFilename(Front(rows)), Last(rows))

\* f"{entry[0]}|{entry[1]}\n"
FormatLine(entry) == entry[1] \o <<"|">> \o entry[2]

\* the rewrite loop without sorted()
LedgerLinesUnsorted(rows) == [k \in 1..Len(rows) |-> FormatLine(rows[k])]

\* the lines the rewrite loop produces
LedgerLines(rows) ==
    LET s == SortedByFilename(rows) IN [k \in 1..Len(s) |-> FormatLine(s[k])]

HasDelimiter(line) == \E k \in 1..Len(line) : line[k] = "|"

\* rsplit in place of split: the line is cut at its last delimiter
LastDelimiter(line) ==
    CHOOSE k \in 1..Len(line) :
        line[k] = "|" /\ \A j \in (k + 1)..Len(line) : line[j] # "|"

FirstDelimiter(line) ==
    CHOOSE k \in 1..Len(line) :
        line[k] = "|" /\ \A j \in 1..(k - 1) : line[j] # "|"

\* line.split('|', 1)
ParseLine(line) ==
    LET k == FirstDelimiter(line)
    IN <<SubSeq(line, 1, k - 1), SubSeq(line, k + 1, Len(line))>>

\* str.strip(): white space off both ends of the line
WhiteSpace == {" ", "\t", "\r"}

RECURSIVE LStrip(_)
LStrip(line) ==
    IF line # <<>> /\ Head(line) \in WhiteSpace THEN LStrip(Tail(line)) ELSE line

RECURSIVE RStrip(_)
RStrip(line) ==
    IF line # <<>> /\ Last(line) \in WhiteSpace THEN RStrip(Front(line)) ELSE line

Strip(line) == RStrip(LStrip(line))

RECURSIVE load_metadata(_)
load_metadata(lines) ==
    IF lines = <<>> THEN <<>>
    ELSE IF Strip(Head(lines)) # <<>> /\ HasDelimiter(Strip(Head(lines)))
         THEN <<ParseLine(Strip(Head(lines)))>> \o load_metadata(Tail(lines))
         ELSE load_metadata(Tail(lines))

FilenamesOf(rows) == {rows[k][1] : k \in 1..Len(rows)}

is_recorded(rows, idx) == Filename(idx) \in FilenamesOf(rows)

\* skip_to_next_unrecorded with "if" in place of "while"
skip_one_if_recorded(rows, sents, idx) ==
    IF idx < Len(sents) /\ is_recorded(rows, idx) THEN idx + 1 ELSE idx

RECURSIVE skip_to_next_unrecorded(_, _, _)
skip_to_next_unrecorded(rows, sents, idx) ==
    IF idx < Len(sents) /\ is_recorded(rows, idx)
    THEN skip_to_next_unrecorded(rows, sents, idx + 1)
    ELSE idx

-----------------------------------------------------------------------------
(* Audio level *)

RECURSIVE Concatenate(_)
Concatenate(blocks) ==
    IF blocks = <<>> THEN <<>> ELSE Head(blocks) \o Concatenate(Tail(blocks))

\* sum(audio ** 2), added up by halves
RECURSIVE SumSquares(_)
SumSquares(audio) ==
    IF audio = <<>> THEN 0
    ELSE IF Len(audio) = 1 THEN audio[1] * audio[1]
    ELSE SumSquares(SubSeq(audio, 1, Len(audio) \div 2))
           + SumSquares(SubSeq(audio, Len(audio) \div 2 + 1, Len(audio)))

\* rms < LEVEL_THRESHOLD_LOW, with rms = sqrt(mean(audio ** 2)): the mean of
\* the squares is below the square of the threshold (a comparison with the
\* nan of an empty array is false)
TooQuiet(audio) ==
    /\ audio # <<>>
    /\ SumSquares(audio) \div Len(audio) < LEVEL_THRESHOLD_LOW * LEVEL_THRESHOLD_LOW

\* rms > LEVEL_THRESHOLD_HIGH
TooLoud(audio) ==
    /\ audio # <<>>
    /\ LET whole == SumSquares(audio) \div Len(audio)
           rest == SumSquares(audio) % Len(audio)
           limit == LEVEL_THRESHOLD_HIGH * LEVEL_THRESHOLD_HIGH
       IN whole > limit \/ (whole = limit /\ rest > 0)

-----------------------------------------------------------------------------
(* Audio processing functions; samples in thousandths of full scale *)

NothingReturned == [fn |-> "none"]

\* int(duration * sample_rate) and int(0.05 * sample_rate)
MinFrames == SAMPLE_RATE \div 10
Margin == SAMPLE_RATE \div 20

\* sum of the magnitudes, added up by halves
RECURSIVE SumAbs(_)
SumAbs(audio) ==
    IF audio = <<>> THEN 0
    ELSE IF Len(audio) = 1 THEN IF audio[1] < 0 THEN 0 - audio[1] ELSE audio[1]
    ELSE SumAbs(SubSeq(audio, 1, Len(audio) \div 2))
           + SumAbs(SubSeq(audio, Len(audio) \div 2 + 1, Len(audio)))

\* window = min(512, len(abs_audio) // 10)
SmoothingWindow(audio) ==
    IF Len(audio) \div 10 < 512 THEN Len(audio) \div 10 ELSE 512

\* smoothed[i] > threshold for the 0-based index i.  np.convolve in mode
\* 'same' with a window of w ones adds up abs_audio[i - w//2 .. i - w//2 + w - 1]
\* and pads with zeros; the mean is over the threshold when the sum is over
\* w times the threshold
Exceeds(audio, i) ==
    LET w == SmoothingWindow(audio)
        lo == i - w \div 2
        hi == lo + w - 1
        first == IF lo < 0 THEN 0 ELSE lo
        last == IF hi > Len(audio) - 1 THEN Len(audio) - 1 ELSE hi
    IN IF w > 1
       THEN SumAbs(SubSeq(audio, first + 1, last + 1)) > SILENCE_THRESHOLD * w
       ELSE SumAbs(<<audio[i + 1]>>) > SILENCE_THRESHOLD

Smallest(S) == CHOOSE x \in S : \A y \in S : x <= y
Largest(S) == CHOOSE x \in S : \A y \in S : y <= x

\* trim_silence cuts the tail off when it finds no sound
trim_silence_cuts_silence(audio) ==
    LET loud == {i \in 0..(Len(audio) - 1) : Exceeds(audio, i)}
        start_idx == IF loud = {} THEN 0
                     ELSE IF Smallest(loud) - Margin < 0 THEN 0
                     ELSE Smallest(loud) - Margin
        end_idx == IF loud = {} THEN 0
                   ELSE IF Largest(loud) + Margin > Len(audio) THEN Len(audio)
                   ELSE Largest(loud) + Margin
    IN SubSeq(audio, start_idx + 1, end_idx)

trim_silence(audio) ==
    LET loud == {i \in 0..(Len(audio) - 1) : Exceeds(audio, i)}
        start_idx == IF loud = {} THEN 0
                     ELSE IF Smallest(loud) - Margin < 0 THEN 0
                     ELSE Smallest(loud) - Margin
        end_idx == IF loud = {} THEN Len(audio)
                   ELSE IF Largest(loud) + Margin > Len(audio) THEN Len(audio)
                   ELSE Largest(loud) + Margin
    IN IF end_idx - start_idx < MinFrames THEN audio
       ELSE SubSeq(audio, start_idx + 1, end_idx)

-----------------------------------------------------------------------------
(* Single-precision numbers.  The device delivers float32 samples and numpy
   keeps that type through normalize_audio: every product, quotient, sum and
   root is rounded to 24 significant bits, to nearest, ties to even.  A
   number is [m |-> mantissa, e |-> exponent] for m * 2^e, with m = 0 or
   2^23 <= |m| < 2^24; the inputs stay far from the ends of the exponent
   range *)

Top == 2^24
Half == 2^23
Limb == 2^12

Zero == [m |-> 0, e |-> 0]

Abs(x) == IF x < 0 THEN 0 - x ELSE x

Sign(x) == IF x < 0 THEN 0 - 1 ELSE IF x > 0 THEN 1 ELSE 0

\* q / 1 with a remainder of twiceRem / 2 out of unit: to nearest, ties to even
RoundEven(q, twiceRem, unit) ==
    IF twiceRem > unit \/ (twiceRem = unit /\ q % 2 = 1) THEN q + 1 ELSE q

\* the rounding may have carried into a 25th bit
Normal(m, e) ==
    IF m = Top THEN [m |-> Half, e |-> e + 1] ELSE [m |-> m, e |-> e]

\* the k with d <= n * 2^(-k) < 2 * d
RECURSIVE Scale(_, _)
Scale(n, d) ==
    IF n < d THEN Scale(2 * n, d) - 1
    ELSE IF n >= 2 * d THEN Scale(n, 2 * d) + 1
    ELSE 0

\* k more bits of the quotient by long division
RECURSIVE QuotientBits(_, _, _, _)
QuotientBits(q, r, d, k) ==
    IF k = 0 THEN <<q, r>>
    ELSE IF 2 * r >= d THEN QuotientBits(2 * q + 1, 2 * r - d, d, k - 1)
    ELSE QuotientBits(2 * q, 2 * r, d, k - 1)

\* n / d for integers n >= 0 and d > 0, rounded
Quotient(n, d) ==
    IF n = 0 THEN Zero
    ELSE LET k == Scale(n, d)
             nn == IF k < 0 THEN n * 2^(0 - k) ELSE n
             dd == IF k > 0 THEN d * 2^k ELSE d
             qr == QuotientBits(1, nn - dd, dd, 23)
         IN Normal(RoundEven(qr[1], 2 * qr[2], dd), k - 23)

\* x / y for x >= 0 and y > 0
FDiv(x, y) ==
    LET q == Quotient(x.m, y.m)
    IN IF x.m = 0 THEN Zero ELSE [m |-> q.m, e |-> q.e + x.e - y.e]

\* x * y: the 48-bit product of the mantissas in 12-bit limbs, then rounded
FMul(x, y) ==
    IF x.m = 0 \/ y.m = 0 THEN Zero
    ELSE LET xm == Abs(x.m)
             ym == Abs(y.m)
             a1 == xm \div Limb
             b1 == xm % Limb
             a2 == ym \div Limb
             b2 == ym % Limb
             mid == a1 * b2 + a2 * b1
             low == (mid % Limb) * Limb + b1 * b2
             H == a1 * a2 + mid \div Limb + low \div Top
             L == low % Top
             r == IF H >= Half
                  THEN Normal(RoundEven(H, 2 * L, Top), x.e + y.e + 24)
                  ELSE Normal(RoundEven(2 * H + L \div Half, 2 * (L % Half), Half),
                              x.e + y.e + 23)
         IN [m |-> Sign(x.m) * Sign(y.m) * r.m, e |-> r.e]

\* x + y for x >= 0 and y >= 0, with three more bits kept below the smaller
\* one's last place, the lowest of them set when anything was shifted out
FAdd(x, y) ==
    IF x.m = 0 THEN y
    ELSE IF y.m = 0 THEN x
    ELSE LET hi == IF x.e >= y.e THEN x ELSE y
             lo == IF x.e >= y.e THEN y ELSE x
             d == hi.e - lo.e
             kept == IF d > 26 THEN 0 ELSE (lo.m * 8) \div 2^d
             lost == IF d > 26 THEN TRUE ELSE (lo.m * 8) % 2^d # 0
             s == hi.m * 8 + (IF lost /\ kept % 2 = 0 THEN kept + 1 ELSE kept)
         IN IF s >= 16 * Half
            THEN Normal(RoundEven(s \div 16, 2 * (s % 16), 16), hi.e + 1)
            ELSE Normal(RoundEven(s \div 8, 2 * (s % 8), 8), hi.e)

\* the square root digit by digit: 13 pairs of bits of the radicand mm, then
\* 11 pairs of zeros, give the 24 bits of the root
RECURSIVE RootBits(_, _, _, _)
RootBits(root, rem, mm, j) ==
    IF j > 24 THEN <<root, rem>>
    ELSE LET pair == IF j <= 13 THEN (mm \div 4^(13 - j)) % 4 ELSE 0
             r == 4 * rem + pair
             t == 4 * root + 1
         IN IF r >= t THEN RootBits(2 * root + 1, r - t, mm, j + 1)
            ELSE RootBits(2 * root, r, mm, j + 1)

\* sqrt(x) for x >= 0; the root is never halfway between two numbers
FSqrt(x) ==
    IF x.m = 0 THEN Zero
    ELSE LET odd == x.e % 2 = 1
             mm == IF odd THEN 2 * x.m ELSE 4 * x.m
             ee == IF odd THEN x.e - 1 ELSE x.e - 2
             rr == RootBits(0, 0, mm, 1)
         IN Normal(IF rr[2] > rr[1] THEN rr[1] + 1 ELSE rr[1], ee \div 2 - 11)

\* x > y for x >= 0 and y >= 0
FGreater(x, y) ==
    /\ x.m # 0
    /\ \/ y.m = 0
       \/ x.e > y.e
       \/ x.e = y.e /\ x.m > y.m

FAbs(x) == [m |-> Abs(x.m), e |-> x.e]

\* the float32 sample nearest to s thousandths of full scale
Sample(s) ==
    LET q == Quotient(Abs(s), 1000)
    IN [m |-> Sign(s) * q.m, e |-> q.e]

Float32(audio) == [i \in 1..Len(audio) |-> Sample(audio[i])]

\* TARGET_RMS = 0.15, and the 0.95 of the clipping guard
TARGET_RMS == Quotient(15, 100)
PEAK_LIMIT == Quotient(95, 100)

\* np.sum(audio ** 2), added up by halves
RECURSIVE SumOfSquares(_)
SumOfSquares(audio) ==
    IF audio = <<>> THEN Zero
    ELSE IF Len(audio) = 1 THEN FMul(audio[1], audio[1])
    ELSE FAdd(SumOfSquares(SubSeq(audio, 1, Len(audio) \div 2)),
              SumOfSquares(SubSeq(audio, Len(audio) \div 2 + 1, Len(audio))))

\* np.max(np.abs(audio)), 0 for no samples
RECURSIVE MaxAbs(_)
MaxAbs(audio) ==
    IF audio = <<>> THEN Zero
    ELSE IF Len(audio) = 1 THEN FAbs(audio[1])
    ELSE LET a == MaxAbs(SubSeq(audio, 1, Len(audio) \div 2))
             b == MaxAbs(SubSeq(audio, Len(audio) \div 2 + 1, Len(audio)))
         IN IF FGreater(a, b) THEN a ELSE b

\* audio * factor
Scaled(audio, factor) == [i \in 1..Len(audio) |-> FMul(audio[i], factor)]

\* np.sqrt(np.mean(audio ** 2)); the mean of no samples is not a number and
\* compares false with 0, as a zero does
RootMeanSquare(audio) ==
    IF audio = <<>> THEN Zero
    ELSE LET total == SumOfSquares(audio)
             mean == Quotient(total.m, Len(audio))
         IN IF total.m = 0 THEN Zero
            ELSE FSqrt([m |-> mean.m, e |-> mean.e + total.e])

normalize_audio(audio) ==
    LET current_rms == RootMeanSquare(audio)
        scaled == Scaled(audio, FDiv(TARGET_RMS, current_rms))
        max_val == MaxAbs(scaled)
    IN IF FGreater(current_rms, Zero)
       THEN IF FGreater(max_val, PEAK_LIMIT)
            THEN Scaled(scaled, FDiv(PEAK_LIMIT, max_val))
            ELSE scaled
       ELSE audio

\* the functions are called from stop_recording only; the specifications of
\* the windows do not follow what they return
NoAudioCall == UNCHANGED returned

\* startIndex records where the capture began for the specification that
\* follows a capture from its start to its save; the others leave it alone
Untracked == UNCHANGED startIndex

-----------------------------------------------------------------------------
(* RecorderApp *)

ClosedReview == [open |-> FALSE, metadata |-> <<>>, index |-> 0]

\* RecorderApp.__init__ on a fresh installation: no metadata file, empty WAV_DIR
Init ==
    /\ sentences = PromptList("A")
    /\ index = 0
    /\ recording = FALSE
    /\ audio_data = <<>>
    /\ stream = "None"
    /\ openStreams = 0
    /\ metadata = <<>>
    /\ metaFile = <<>>
    /\ wavs = {}
    /\ reviews = [w \in Windows |-> ClosedReview]
    /\ outcome = "none"
    /\ fault = "none"
    /\ pendingTicks = 0
    /\ led = "Ready"
    /\ returned = NothingReturned
    /\ startIndex = 0

\* the program is started again, possibly with another --sentences file
Restart(tag) ==
    /\ sentences' = PromptList(tag)
    /\ metadata' = load_metadata(metaFile)
    /\ index' = skip_to_next_unrecorded(load_metadata(metaFile), PromptList(tag), 0)
    /\ recording' = FALSE
    /\ audio_data' = <<>>
    /\ stream' = "None"
    /\ openStreams' = 0
    /\ reviews' = [w \in Windows |-> ClosedReview]
    /\ outcome' = "none"
    /\ fault' = "none"
    /\ pendingTicks' = 0
    /\ led' = "Ready"
    /\ returned' = NothingReturned
    /\ startIndex' = 0
    /\ UNCHANGED <<metaFile, wavs>>

\* next_sentence without skip_to_next_unrecorded
next_sentence_no_skip(rows, sents, idx) == idx + 1

next_sentence(rows, sents, idx) == skip_to_next_unrecorded(rows, sents, idx + 1)

\* skip_sentence -> next_sentence
SkipSentence ==
    /\ index <= NumPrompts
    /\ index' = next_sentence(metadata, sentences, index)
    /\ outcome' = "none"
    /\ fault' = "none"
    /\ UNCHANGED <<sentences, recording, audio_data, stream, openStreams,
                   metadata, metaFile, wavs, reviews>>

previous_sentence(idx) == IF idx > 0 THEN idx - 1 ELSE idx

PreviousSentence ==
    /\ index' = previous_sentence(index)
    /\ outcome' = "none"
    /\ fault' = "none"
    /\ UNCHANGED <<sentences, recording, audio_data, stream, openStreams,
                   metadata, metaFile, wavs, reviews>>

\* the all-done guard at the top of start_recording
AllDone(sents, idx) == idx >= Len(sents)

\* start_recording; f is what the audio device does
StartRecording(F) ==
    IF AllDone(sentences, index)
    THEN /\ outcome' = "Complete"
         /\ fault' = "none"
         /\ UNCHANGED <<sentences, index, recording, audio_data, stream,
                        openStreams, metadata, metaFile, wavs, reviews>>
    ELSE /\ Len(metadata) < MaxRows
         /\ \E f \in F \cap {"none", "dev_open", "dev_start"} :
              /\ f = "dev_start" => openStreams = 0
              /\ audio_data' = <<>>
              /\ recording' = (f = "none")
              /\ stream' = CASE f = "none" -> "active"
                             [] f = "dev_start" -> "open"
                             [] OTHER -> stream
              /\ openStreams' = IF f = "dev_open" THEN openStreams
                                ELSE openStreams + 1
              /\ outcome' = IF f = "none" THEN "Started" ELSE "DeviceUnavailable"
              /\ fault' = f
         /\ UNCHANGED <<sentences, index, metadata, metaFile, wavs, reviews>>

\* audio_callback, on the device's thread
AudioCallback(B) ==
    /\ stream = "active"
    /\ recording
    /\ Len(audio_data) < MaxBlocks
    /\ \E block \in B : audio_data' = Append(audio_data, block)
    /\ UNCHANGED <<sentences, index, recording, stream, openStreams, metadata,
                   metaFile, wavs, reviews, outcome, fault>>

\* self.metadata.append([filename, sentence])
save_metadata(rows, filename, sentence) == Append(rows, <<filename, sentence>>)

\* the rewrite of METADATA_FILE: every content the file can have afterwards
RewriteLedger(file, rows, f) ==
    CASE f = "meta_open" -> {file}
      [] f = "meta_write" ->
            {SubSeq(LedgerLines(rows), 1, k) : k \in 0..(Len(LedgerLines(rows)) - 1)}
      [] OTHER -> {LedgerLines(rows)}

\* a block whose callback passed the self.recording test before stop cleared it
\* the flag is cleared only after the stream has stopped: every callback that
\* runs in between appends
LateBlocks(B) ==
    IF stream = "active"
    THEN {<<>>} \cup {<<b>> : b \in B} \cup {<<b1, b2>> : b1 \in B, b2 \in B}
    ELSE {<<>>}

InFlight(B) ==
    IF stream = "active" /\ Len(audio_data) < MaxBlocks
    THEN {<<>>} \cup {<<b>> : b \in B}
    ELSE {<<>>}

\* the level check without its upper threshold
LevelVerdictLowOnly(audio) == IF TooQuiet(audio) THEN "TooQuiet" ELSE "InRange"

\* the level check of stop_recording
LevelVerdict(audio) ==
    IF TooQuiet(audio) THEN "TooQuiet"
    ELSE IF TooLoud(audio) THEN "TooLoud"
    ELSE "InRange"

\* the ledger is updated whether or not sf.write raised
WavWrittenIgnoringError(f) == TRUE

\* sf.write returned without raising
WavWritten(f) == f # "wav_write"

\* the try block of stop_recording: file write, then ledger, then cursor
SaveCapture(f) ==
    LET filename == Filename(index) IN
    IF ~WavWritten(f)
    THEN /\ wavs' \in {wavs, wavs \cup {filename}}
         /\ outcome' = "SaveFailed"
         /\ UNCHANGED <<metadata, metaFile, index>>
    ELSE /\ wavs' = wavs \cup {filename}
         /\ IF index >= Len(sentences)
            THEN /\ f = "none"
                 /\ outcome' = "SaveFailed"
                 /\ UNCHANGED <<metadata, metaFile, index>>
            ELSE /\ metadata' = save_metadata(metadata, filename, sentences[index + 1])
                 /\ metaFile' \in RewriteLedger(metaFile, metadata', f)
                 /\ IF f = "none"
                    THEN /\ outcome' = "Saved"
                         /\ index' = next_sentence(metadata', sentences, index)
                    ELSE /\ outcome' = "SaveFailed"
                         /\ index' = index

\* the review window keeps a reference to the main window's list
SnapshotShared(snapshot, appRows) == appRows

\* an open review's list once the main window has changed its own: __init__
\* took a copy, so the list is what it was
SnapshotAfterAppSave(snapshot, appRows) == snapshot

\* the buffer is read before the stream is stopped and closed
BufferBeforeClose(data, extra) == data

\* the list stop_recording reads: the stream has been stopped and closed, a
\* block that was in flight has landed and no other can
BufferAtStop(data, extra) == data \o extra

\* self.recording is cleared only when the capture has been saved
RecordingStuckOnFailure(result) == result = "SaveFailed"

\* self.recording once stop_recording has reported its result: the flag is
\* cleared on entry, before the stream, the level check and the save
RecordingAfterStop(result) == FALSE

\* the buffer is never found empty
EmptyCaptureMissed(data) == FALSE

\* "if not self.audio_data": no block has been appended since the start
EmptyCapture(data) == data = <<>>

StopRecording(F, B) ==
    \E extra \in InFlight(B) :
        /\ stream' = IF stream = "None" THEN "None" ELSE "closed"
        /\ openStreams' = IF stream \in {"open", "active"}
                          THEN openStreams - 1 ELSE openStreams
        /\ audio_data' = audio_data \o extra
        /\ IF EmptyCapture(BufferAtStop(audio_data, extra))
           THEN /\ outcome' = "NoAudio"
                /\ fault' = "none"
                /\ UNCHANGED <<index, metadata, metaFile, wavs>>
           ELSE IF LevelVerdict(Concatenate(BufferAtStop(audio_data, extra))) # "InRange"
           THEN /\ outcome' = LevelVerdict(Concatenate(BufferAtStop(audio_data, extra)))
                /\ fault' = "none"
                /\ UNCHANGED <<index, metadata, metaFile, wavs>>
           ELSE \E f \in F \cap {"none", "wav_write", "meta_open", "meta_write"} :
                   /\ fault' = f
                   /\ SaveCapture(f)
        /\ recording' = RecordingAfterStop(outcome')
        /\ reviews' = [w \in Windows |->
                          IF reviews[w].open
                          THEN [reviews[w] EXCEPT
                                  !.metadata = SnapshotAfterAppSave(@, metadata')]
                          ELSE reviews[w]]
        /\ UNCHANGED sentences

\* toggle_recording without the test of self.recording
ToggleAlwaysStarts(F, B) == StartRecording(F)

\* toggle_recording: the Start/Stop button and the space key
ToggleRecording(F, B) ==
    IF recording THEN StopRecording(F, B) ELSE StartRecording(F)

-----------------------------------------------------------------------------
(* ReviewWindow *)

\* RecorderApp.review -> ReviewWindow.__init__: a snapshot copy of the ledger
ReviewSnapshot(rows) == rows

Review(w) ==
    /\ ~reviews[w].open
    /\ reviews' = [reviews EXCEPT
                     ![w] = [open |-> TRUE, metadata |-> ReviewSnapshot(metadata),
                             index |-> 0]]
    /\ outcome' = "none"
    /\ fault' = "none"
    /\ UNCHANGED <<sentences, index, recording, audio_data, stream, openStreams,
                   metadata, metaFile, wavs>>

review_next(rows, idx) == IF idx < Len(rows) - 1 THEN idx + 1 ELSE idx

ReviewNext(w) ==
    /\ reviews[w].open
    /\ reviews' = [reviews EXCEPT
                     ![w].index = review_next(reviews[w].metadata, reviews[w].index)]
    /\ outcome' = "none"
    /\ fault' = "none"
    /\ UNCHANGED <<sentences, index, recording, audio_data, stream, openStreams,
                   metadata, metaFile, wavs>>

ReviewPrevious(w) ==
    /\ reviews[w].open
    /\ reviews' = [reviews EXCEPT ![w].index = previous_sentence(reviews[w].index)]
    /\ outcome' = "none"
    /\ fault' = "none"
    /\ UNCHANGED <<sentences, index, recording, audio_data, stream, openStreams,
                   metadata, metaFile, wavs>>

\* what play_audio reports for the entry under the review index
play_audio(rows, idx, files) ==
    IF idx < Len(rows) /\ rows[idx + 1][1] \in files THEN "Played" ELSE "none"

PlayAudio(w) ==
    /\ reviews[w].open
    /\ outcome' = play_audio(reviews[w].metadata, reviews[w].index, wavs)
    /\ fault' = "none"
    /\ UNCHANGED <<sentences, index, recording, audio_data, stream, openStreams,
                   metadata, metaFile, wavs, reviews>>

\* self.metadata.pop(self.index)
\* self.metadata.pop() without the index
PopLastRow(rows, idx) == [k \in 1..(Len(rows) - 1) |-> rows[k]]

PopRow(rows, idx) ==
    [k \in 1..(Len(rows) - 1) |-> IF k <= idx THEN rows[k] ELSE rows[k + 1]]

\* delete_audio without its adjustment of the index
IndexUnadjusted(rows, idx) == idx

\* "Stay at same index (which now shows next item)"
IndexAfterDelete(rows, idx) == IF idx >= Len(rows) /\ idx > 0 THEN idx - 1 ELSE idx

\* what delete_audio pushes into the main window's ledger
PushToApp(appRows, snapshot) == snapshot

\* the file is removed before the user is asked
FilesRemovedBeforeAsking(files, filename) == files \ {filename}

\* askyesno answered No: delete_audio returns before it touches anything
FilesAfterDecline(files, filename) == files

\* the except clause of delete_audio swallows the error and carries on
RemovalErrorIgnored(f) == FALSE

\* os.remove raised: delete_audio shows the error and returns
RemovalAborts(f) == f = "remove"

\* delete_audio; confirm is the answer to askyesno, f what the filesystem does
DeleteAudio(w, F) ==
    /\ reviews[w].open
    /\ LET rv == reviews[w] IN
       IF rv.index >= Len(rv.metadata)
       THEN /\ outcome' = "none"
            /\ fault' = "none"
            /\ UNCHANGED <<metadata, metaFile, wavs, reviews>>
       ELSE \E confirm \in BOOLEAN :
            \E f \in F \cap {"none", "remove", "meta_open", "meta_write"} :
              LET filename == rv.metadata[rv.index + 1][1]
                  popped == PopRow(rv.metadata, rv.index)
              IN
              IF ~confirm
              THEN /\ f = "none"
                   /\ outcome' = "NotConfirmed"
                   /\ fault' = "none"
                   /\ wavs' = FilesAfterDecline(wavs, filename)
                   /\ UNCHANGED <<metadata, metaFile, reviews>>
              ELSE IF RemovalAborts(f)
              THEN /\ filename \in wavs
                   /\ outcome' = "DeleteFailed"
                   /\ fault' = f
                   /\ UNCHANGED <<metadata, metaFile, wavs, reviews>>
              ELSE /\ f = "remove" => filename \in wavs
                   /\ wavs' = IF f = "remove" THEN wavs ELSE wavs \ {filename}
                   /\ metadata' = PushToApp(metadata, popped)
                   /\ metaFile' \in RewriteLedger(metaFile, popped, f)
                   /\ reviews' = [reviews EXCEPT
                        ![w].metadata = popped,
                        ![w].index = IF f \in {"none", "remove"}
                                     THEN IndexAfterDelete(popped, rv.index)
                                     ELSE rv.index]
                   /\ outcome' = IF f \in {"none", "remove"}
                                 THEN "Deleted" ELSE "DeleteCrashed"
                   /\ fault' = f
    /\ UNCHANGED <<sentences, index, recording, audio_data, stream, openStreams>>

\* close_window: refreshes the main display and destroys the window
CloseWindow(w) ==
    /\ reviews[w].open
    /\ reviews' = [reviews EXCEPT ![w] = ClosedReview]
    /\ outcome' = "none"
    /\ fault' = "none"
    /\ UNCHANGED <<sentences, index, recording, audio_data, stream, openStreams,
                   metadata, metaFile, wavs>>

-----------------------------------------------------------------------------
(* The live meter *)

\* np.max(np.abs(audio[-SAMPLE_RATE//10:]))
RECURSIVE Peak(_)
Peak(audio) ==
    IF audio = <<>> THEN 0
    ELSE IF Len(audio) = 1 THEN Abs(audio[1])
    ELSE LET a == Peak(SubSeq(audio, 1, Len(audio) \div 2))
             b == Peak(SubSeq(audio, Len(audio) \div 2 + 1, Len(audio)))
         IN IF a > b THEN a ELSE b

LastTenth(audio) ==
    IF Len(audio) <= SAMPLE_RATE \div 10 THEN audio
    ELSE SubSeq(audio, Len(audio) - (SAMPLE_RATE \div 10) + 1, Len(audio))

\* the four-way test with its bounds included in the lower band
BandInclusive(level) ==
    IF level <= 50 THEN "Too quiet"
    ELSE IF level <= 700 THEN "Good"
    ELSE IF level <= 900 THEN "Loud"
    ELSE "Clipping!"

\* the four-way test of update_meter on the peak level
Band(level) ==
    IF level < 50 THEN "Too quiet"
    ELSE IF level < 700 THEN "Good"
    ELSE IF level < 900 THEN "Loud"
    ELSE "Clipping!"

\* update_meter without its test of self.recording
MeterAlwaysRuns(rec) == TRUE

\* update_meter does its work and re-arms the timer only while self.recording
MeterRuns(rec) == rec

\* update_meter, run by the Tk timer on the control thread
MeterTick ==
    /\ pendingTicks > 0
    /\ IF MeterRuns(recording)
       THEN /\ led' = IF audio_data # <<>>
                      THEN Band(Peak(LastTenth(Concatenate(audio_data))))
                      ELSE led
            /\ pendingTicks' = pendingTicks
       ELSE /\ led' = led
            /\ pendingTicks' = pendingTicks - 1
    /\ UNCHANGED <<sentences, index, recording, audio_data, stream, openStreams,
                   metadata, metaFile, wavs, reviews, outcome, fault>>

\* what toggle_recording does to the meter: start_recording calls update_meter
\* once the stream runs, stop_recording resets the LED unless the buffer is empty
MeterOnToggle ==
    /\ pendingTicks' = IF outcome' = "Started" THEN pendingTicks + 1
                       ELSE pendingTicks
    /\ led' = IF recording /\ outcome' # "NoAudio" THEN "Ready" ELSE led
    /\ outcome' = "Started" => pendingTicks < MaxTicks

\* the meter writes the LED and its own timer and nothing else, and no other
\* handler reads them: the specifications that leave the meter out hold both
NoMeter == UNCHANGED meterVars

-----------------------------------------------------------------------------
(* Specifications *)

NoFault == {"none"}
InRangeBlocks == {<<200>>}

\* the main window: faults from F, device blocks from B
Capture(F, B) ==
    \/ ToggleRecording(F, B) /\ NoMeter /\ NoAudioCall /\ Untracked
    \/ AudioCallback(B) /\ NoMeter /\ NoAudioCall /\ Untracked
    \/ SkipSentence /\ NoMeter /\ NoAudioCall /\ Untracked
    \/ PreviousSentence /\ NoMeter /\ NoAudioCall /\ Untracked

\* the review windows W, faults from F
Curate(F, W) ==
    \/ \E w \in W : Review(w) /\ NoMeter /\ NoAudioCall /\ Untracked
    \/ \E w \in W : ReviewNext(w) /\ NoMeter /\ NoAudioCall /\ Untracked
    \/ \E w \in W : ReviewPrevious(w) /\ NoMeter /\ NoAudioCall /\ Untracked
    \/ \E w \in W : PlayAudio(w) /\ NoMeter /\ NoAudioCall /\ Untracked
    \/ \E w \in W : DeleteAudio(w, F) /\ NoMeter /\ NoAudioCall /\ Untracked
    \/ \E w \in W : CloseWindow(w) /\ NoMeter /\ NoAudioCall /\ Untracked

\* one capture session, every level, every fault
Next == Capture(Faults, Blocks)

Spec == Init /\ [][Next]_vars

\* capture and review of in-range captures; a file removal may fail
NextReview ==
    \/ Capture(NoFault, InRangeBlocks)
    \/ Curate({"none", "remove"}, {"w1"})

SpecReview == Init /\ [][NextReview]_vars

\* saves, re-records through previous, review open / delete / close; no fault
NextLockstep ==
    \/ ToggleRecording(NoFault, InRangeBlocks) /\ NoMeter /\ NoAudioCall /\ Untracked
    \/ AudioCallback(InRangeBlocks) /\ NoMeter /\ NoAudioCall /\ Untracked
    \/ PreviousSentence /\ NoMeter /\ NoAudioCall /\ Untracked
    \/ Review("w1") /\ NoMeter /\ NoAudioCall /\ Untracked
    \/ DeleteAudio("w1", NoFault) /\ NoMeter /\ NoAudioCall /\ Untracked
    \/ CloseWindow("w1") /\ NoMeter /\ NoAudioCall /\ Untracked

SpecLockstep == Init /\ [][NextLockstep]_vars

\* several runs of the program over the same WAV_DIR; no fault
NextSessions ==
    \/ Capture(NoFault, InRangeBlocks)
    \/ \E tag \in ListTags : Restart(tag)

SpecSessions == Init /\ [][NextSessions]_vars

\* one capture session with its live meter; every level, device faults
NextMeter ==
    \/ ToggleRecording(NoFault \cup {"dev_open", "dev_start"}, Blocks)
          /\ MeterOnToggle /\ NoAudioCall /\ Untracked
    \/ AudioCallback(Blocks) /\ NoMeter /\ NoAudioCall /\ Untracked
    \/ MeterTick /\ NoAudioCall /\ Untracked
    \/ SkipSentence /\ NoMeter /\ NoAudioCall /\ Untracked
    \/ PreviousSentence /\ NoMeter /\ NoAudioCall /\ Untracked

SpecMeter == Init /\ [][NextMeter]_vars

\* a block longer than the meter's window: one clipping sample, then a tenth
\* of a second of near silence
LongBlock == [i \in 1..(SAMPLE_RATE \div 10 + 1) |-> IF i = 1 THEN 950 ELSE 30]

\* blocks on each side of every bound of the meter, one of them negative
MeterBlocks ==
    {<<30>>, <<49>>, <<50>>, <<300>>, <<-300>>, <<699>>, <<700>>, <<800>>,
     <<899>>, <<900>>, <<950>>, LongBlock}

\* one capture session with its live meter, over the levels of the meter
NextBands ==
    \/ ToggleRecording(NoFault, MeterBlocks) /\ MeterOnToggle /\ NoAudioCall /\ Untracked
    \/ AudioCallback(MeterBlocks) /\ NoMeter /\ NoAudioCall /\ Untracked
    \/ MeterTick /\ NoAudioCall /\ Untracked

SpecBands == Init /\ [][NextBands]_vars

\* lines a metadata.csv may hold when the program starts: blank, white space
\* only, without a delimiter, well formed, with a second delimiter in the
\* text, the delimiter alone, and well formed between white space
SampleLines ==
    {<<>>, <<" ">>, <<"x">>,
     FormatLine(<<Filename(0), <<"A", "1">>>>),
     FormatLine(<<Filename(1), <<"B", "|", "2">>>>),
     <<"|">>,
     <<" ">> \o FormatLine(<<Filename(0), <<"A", "1">>>>) \o <<" ">>}

LedgerFiles == UNION {[1..n -> SampleLines] : n \in 0..MaxLines}

\* the program has been started on a metadata.csv it did not write
InitLoad ==
    /\ sentences = PromptList("A")
    /\ metaFile \in LedgerFiles
    /\ metadata = load_metadata(metaFile)
    /\ wavs = {}
    /\ index = skip_to_next_unrecorded(load_metadata(metaFile), PromptList("A"), 0)
    /\ recording = FALSE
    /\ audio_data = <<>>
    /\ stream = "None"
    /\ openStreams = 0
    /\ reviews = [w \in Windows |-> ClosedReview]
    /\ outcome = "none"
    /\ fault = "none"
    /\ pendingTicks = 0
    /\ led = "Ready"
    /\ returned = NothingReturned
    /\ startIndex = 0

NextLoad == \E tag \in ListTags : Restart(tag)

SpecLoad == InitLoad /\ [][NextLoad]_vars

\* buffers for the audio functions: every short buffer over levels on both
\* sides of the silence threshold, and five longer ones
Levels == {0, 10, 11, 200, -950}

ShortBuffers == UNION {[1..n -> Levels] : n \in 0..MaxSamples}

\* 50 samples, every fifth at 0.045: no mean of five is over the threshold
SparseBuffer == [i \in 1..50 |-> IF i % 5 = 1 THEN 45 ELSE 0]

\* 50 samples of silence around one of 0.3
SpikeBuffer == [i \in 1..50 |-> IF i = 25 THEN 300 ELSE 0]

\* 45 samples of silence around one of 0.5
LoudSpikeBuffer == [i \in 1..45 |-> IF i = 23 THEN 500 ELSE 0]

\* longer than min_frames, one sample in 221 at 0.1
LongSparseBuffer == [i \in 1..(MinFrames + 5) |-> IF i % 221 = 1 THEN 100 ELSE 0]

\* silence, a tenth of a second of sound, silence
SpeechBuffer ==
    [i \in 1..(3 * Margin + MinFrames) |->
        IF i > 2 * Margin /\ i <= 2 * Margin + MinFrames THEN 20 ELSE 0]

AudioInputs ==
    ShortBuffers
        \cup {SparseBuffer, SpikeBuffer, LoudSpikeBuffer, LongSparseBuffer, SpeechBuffer}

\* a capture is in the buffer, nothing has been processed
InitAudio ==
    /\ sentences = PromptList("A")
    /\ \E audio \in AudioInputs :
          audio_data = IF audio = <<>> THEN <<>> ELSE <<audio>>
    /\ index = 0
    /\ recording = FALSE
    /\ stream = "None"
    /\ openStreams = 0
    /\ metadata = <<>>
    /\ metaFile = <<>>
    /\ wavs = {}
    /\ reviews = [w \in Windows |-> ClosedReview]
    /\ outcome = "none"
    /\ fault = "none"
    /\ pendingTicks = 0
    /\ led = "Ready"
    /\ returned = NothingReturned
    /\ startIndex = 0

\* audio = trim_silence(audio, SAMPLE_RATE) on the buffer
CallTrimSilence ==
    /\ returned' = [fn |-> "trim", samples |-> trim_silence(Concatenate(audio_data))]
    /\ UNCHANGED <<sentences, index, recording, audio_data, stream, openStreams,
                   metadata, metaFile, wavs, reviews, outcome, fault, pendingTicks,
                   led, startIndex>>

\* audio = normalize_audio(audio) on the buffer
CallNormalizeAudio ==
    /\ returned' = [fn |-> "normalize",
                    samples |-> normalize_audio(Float32(Concatenate(audio_data)))]
    /\ UNCHANGED <<sentences, index, recording, audio_data, stream, openStreams,
                   metadata, metaFile, wavs, reviews, outcome, fault, pendingTicks,
                   led, startIndex>>

NextAudio == CallTrimSilence \/ CallNormalizeAudio

SpecAudio == InitAudio /\ [][NextAudio]_vars

\* the two-prompt session of the end-to-end test: sentences.txt holds
\* "Hello world" and "Test two", WAV_DIR is empty
HelloWorld == <<"H", "e", "l", "l", "o", " ", "w", "o", "r", "l", "d">>
TestTwo == <<"T", "e", "s", "t", " ", "t", "w", "o">>

InitEndToEnd ==
    /\ sentences = <<HelloWorld, TestTwo>>
    /\ metadata = <<>>
    /\ metaFile = <<>>
    /\ wavs = {}
    /\ index = skip_to_next_unrecorded(<<>>, <<HelloWorld, TestTwo>>, 0)
    /\ recording = FALSE
    /\ audio_data = <<>>
    /\ stream = "None"
    /\ openStreams = 0
    /\ reviews = [w \in Windows |-> ClosedReview]
    /\ outcome = "none"
    /\ fault = "none"
    /\ pendingTicks = 0
    /\ led = "Ready"
    /\ returned = NothingReturned
    /\ startIndex = 0

\* captures at amplitude 0.2 and at amplitude 0.005
TestBlocks == {<<200>>, <<5>>}

NextEndToEnd ==
    \/ Capture(NoFault, TestBlocks)
    \/ Curate(NoFault, {"w1"})

SpecEndToEnd == InitEndToEnd /\ [][NextEndToEnd]_vars

\* start_recording runs at the cursor it finds: the capture is for that prompt
TrackStart == startIndex' = IF outcome' = "Started" THEN index ELSE startIndex

\* one capture session in which every capture is followed from the cursor it
\* was started at; every level, every fault
NextTracked ==
    \/ ToggleRecording(Faults, Blocks) /\ TrackStart /\ NoMeter /\ NoAudioCall
    \/ AudioCallback(Blocks) /\ NoMeter /\ NoAudioCall /\ Untracked
    \/ SkipSentence /\ NoMeter /\ NoAudioCall /\ Untracked
    \/ PreviousSentence /\ NoMeter /\ NoAudioCall /\ Untracked

SpecTracked == Init /\ [][NextTracked]_vars

\* what can go wrong with METADATA_FILE: open() raises, or a write raises
\* after some of the lines
LedgerFaults == {"none", "meta_open", "meta_write"}

\* capture and review of in-range captures while the ledger file may fail
NextLedger ==
    \/ Capture(LedgerFaults, InRangeBlocks)
    \/ Curate(LedgerFaults, {"w1"})

SpecLedger == Init /\ [][NextLedger]_vars

\* the ledger of a run in which every prompt of list A was recorded
AllRecorded == [i \in 1..NumPrompts |-> <<Filename(i - 1), PromptList("A")[i]>>]

\* RecorderApp.__init__ over the files such a run has left
InitRecorded ==
    /\ sentences = PromptList("A")
    /\ metadata = load_metadata(LedgerLines(AllRecorded))
    /\ metaFile = LedgerLines(AllRecorded)
    /\ wavs = FilenamesOf(AllRecorded)
    /\ index = skip_to_next_unrecorded(metadata, sentences, 0)
    /\ recording = FALSE
    /\ audio_data = <<>>
    /\ stream = "None"
    /\ openStreams = 0
    /\ reviews = [w \in Windows |-> ClosedReview]
    /\ outcome = "none"
    /\ fault = "none"
    /\ pendingTicks = 0
    /\ led = "Ready"
    /\ returned = NothingReturned
    /\ startIndex = 0

\* both review windows: review() makes a new ReviewWindow every time it is
\* called and takes no grab, so the Review button opens a second one; no fault
NextTwoReviews == Curate(NoFault, Windows)

SpecTwoReviews == InitRecorded /\ [][NextTwoReviews]_vars

-----------------------------------------------------------------------------
(* Properties *)

NoDuplicateFilenames(rows) ==
    \A j, k \in 1..Len(rows) : j # k => rows[j][1] # rows[k][1]

TextsFor(rows, filename) ==
    {rows[k][2] : k \in {j \in 1..Len(rows) : rows[j][1] = filename}}

\* the step is a stop_recording
StopStep == recording /\ ~recording'

\* the capture a stop step has processed
Processed == Concatenate(audio_data')

\* C1: neither the in-memory ledger nor the ledger file ever holds two rows
\* with the same filename; a re-record replaces the row.
C1_NoDuplicateRows ==
    /\ NoDuplicateFilenames(metadata)
    /\ NoDuplicateFilenames(load_metadata(metaFile))

\* C2: with no filesystem error, NNN.wav exists iff the store's ledger has a
\* row for NNN.wav.
C2_FilesMatchLedger == wavs = FilenamesOf(metadata)

\* C3: after a successful save for prompt i, prompt i is recorded and the
\* ledger's text for filename(i) is the text passed to that save.
C3_LedgerTextIsLastSaved ==
    [][(StopStep /\ outcome' = "Saved") =>
          /\ is_recorded(metadata', index)
          /\ TextsFor(metadata', Filename(index)) = {sentences[index + 1]}
          /\ TextsFor(load_metadata(metaFile'), Filename(index))
                = {sentences[index + 1]}]_vars

\* C4: the lines of the ledger file are in ascending filename order, whatever
\* the order of recording, re-recording and deleting.
C4_LedgerFileSorted ==
    \A k \in 1..(Len(metaFile) - 1) :
        ~StrLess(ParseLine(metaFile[k + 1])[1], ParseLine(metaFile[k])[1])

\* C4 witness: a review delete has rewritten a file of two or more lines from
\* a ledger that is itself out of filename order.
C4_Witness ==
    /\ outcome = "Deleted"
    /\ Len(metaFile) >= 2
    /\ metadata # SortedByFilename(metadata)

\* C5: a stop whose audio file write fails reports SaveFailed and leaves the
\* in-memory ledger and the ledger file as they were.
C5_WavFailureLeavesLedger ==
    [][(StopStep /\ fault' = "wav_write") =>
          /\ outcome' = "SaveFailed"
          /\ metadata' = metadata
          /\ metaFile' = metaFile]_vars

\* C5 witness: the audio file write has failed with rows already in the ledger.
C5_Witness ==
    /\ fault = "wav_write"
    /\ outcome = "SaveFailed"
    /\ ~recording
    /\ metadata # <<>>

\* C6: every stop that reports SaveFailed leaves the cursor and the ledger as
\* they were, so isRecorded(cursor) keeps its value.
C6_SaveFailedLeavesLedger ==
    [][(StopStep /\ outcome' = "SaveFailed") =>
          /\ index' = index
          /\ metadata' = metadata
          /\ is_recorded(metadata', index') = is_recorded(metadata, index)]_vars

\* C7: a stop on a capture with RMS below 0.02 or above 0.9 rejects it: no
\* file written, ledger unchanged in memory and on disk, cursor unchanged,
\* session idle.
C7_OutOfRangeRejected ==
    [][(StopStep /\ Processed # <<>>
          /\ \/ SumSquares(Processed) < 20 * 20 * Len(Processed)
             \/ SumSquares(Processed) > 900 * 900 * Len(Processed)) =>
          /\ outcome' = IF SumSquares(Processed) < 20 * 20 * Len(Processed)
                        THEN "TooQuiet" ELSE "TooLoud"
          /\ wavs' = wavs
          /\ metadata' = metadata
          /\ metaFile' = metaFile
          /\ index' = index
          /\ ~recording']_vars

\* C7 witness: a capture has been rejected as too loud with rows in the ledger.
C7_Witness ==
    /\ outcome = "TooLoud"
    /\ ~recording
    /\ metadata # <<>>

\* C8: a stop on an in-range capture whose save succeeds adds the row
\* (filename(cursor), prompt text at cursor) and moves the cursor to the first
\* unrecorded index above the saved one, or to the list end.
C8_SaveAdvancesCursor ==
    [][StopStep =>
          /\ (/\ Processed # <<>>
              /\ SumSquares(Processed) >= 20 * 20 * Len(Processed)
              /\ SumSquares(Processed) <= 900 * 900 * Len(Processed)
              /\ fault' = "none"
              /\ index < Len(sentences)) => outcome' = "Saved"
          /\ outcome' = "Saved" =>
              /\ \E k \in 1..Len(metadata') :
                    metadata'[k] = <<Filename(index), sentences[index + 1]>>
              /\ Len(metadata') = Len(metadata) + 1
              /\ index' > index
              /\ index' <= Len(sentences)
              /\ index' < Len(sentences) => ~is_recorded(metadata', index')
              /\ \A j \in (index + 1)..(index' - 1) : is_recorded(metadata', j)]_vars

\* C8 witness: prompt 1 has just been saved and the cursor has skipped over
\* the already recorded prompt 2.
C8_Witness ==
    /\ outcome = "Saved"
    /\ Last(metadata)[1] = Filename(0)
    /\ is_recorded(metadata, 1)
    /\ index = 2

\* C9: the cursor always satisfies 0 <= cursor <= promptCount.
C9_CursorInRange == index >= 0 /\ index <= Len(sentences)

C11_FailedStartChangesNothing ==
    [][(~recording /\ fault' \in {"dev_open", "dev_start"})
          => /\ outcome' = "DeviceUnavailable"
             /\ ~recording'
             /\ index' = index
             /\ metadata' = metadata
             /\ metaFile' = metaFile
             /\ openStreams' = openStreams
             /\ stream' # "open"]_vars

StopOutcomes == {"NoAudio", "TooQuiet", "TooLoud", "Saved", "SaveFailed"}

\* C12: every stop returns the session to Idle with its stream closed,
\* whichever of the five results it reports (a step taken while recording
\* either is such a stop or leaves the session recording on the same stream),
\* and a start issued after a stop is accepted: it is refused only when every
\* prompt is done, and records on a cleared buffer unless the device fails.
C12_StopReturnsToIdle ==
    [][/\ recording =>
            \/ outcome' \in StopOutcomes /\ ~recording' /\ stream' = "closed"
            \/ recording' /\ outcome' \in {outcome, "none"} /\ stream' = stream
       /\ (~recording /\ outcome \in StopOutcomes
              /\ outcome' \in {"Started", "DeviceUnavailable", "Complete"}) =>
            /\ outcome' = "Complete" <=> index >= Len(sentences)
            /\ outcome' = "Started" <=> recording'
            /\ outcome' = "Started" => audio_data' = <<>> /\ stream' = "active"
            /\ outcome' = "DeviceUnavailable" => fault' # "none"]_vars

C12_Witness ==
    /\ recording /\ outcome = "Started" /\ stream = "active"
    /\ metadata # <<>> /\ wavs # FilenamesOf(metadata)

\* a step of delete_audio that went through; the device callback is the one
\* step that reports nothing of its own, and it alone grows the buffer
DeleteStep == outcome' = "Deleted" /\ audio_data' = audio_data

\* C13: a confirmed delete at review index k, whether the audio file exists
\* or is already gone, leaves no file of that name, removes exactly the row
\* at k from the review's snapshot and keeps every other row in place, and
\* the ledger file read back afterwards holds exactly the remaining rows.
C13_DeleteRemovesExactlyRow ==
    [][DeleteStep =>
          LET old == reviews["w1"].metadata
              k == reviews["w1"].index
              new == reviews'["w1"].metadata
          IN /\ reviews["w1"].open /\ k < Len(old)
             /\ Len(new) = Len(old) - 1
             /\ \A j \in 1..Len(new) :
                    new[j] = IF j <= k THEN old[j] ELSE old[j + 1]
             /\ wavs' = wavs \ {old[k + 1][1]}
             /\ load_metadata(metaFile') = SortedByFilename(new)]_vars

\* 001.wav has just been deleted at review index 0 and the row of 002.wav,
\* which followed it, remains together with its file
C13_Witness ==
    /\ outcome = "Deleted"
    /\ reviews["w1"].metadata # <<>>
    /\ reviews["w1"].metadata[1][1] = Filename(1)
    /\ reviews["w1"].index = 0
    /\ wavs = {Filename(1)}

\* C14: when removing the audio file fails, the delete stops there: the
\* review's snapshot and index, the main window's ledger, the ledger file and
\* the audio files are all unchanged.
C14_FailedRemovalChangesNothing ==
    [][fault' = "remove" =>
          /\ outcome' = "DeleteFailed"
          /\ reviews' = reviews
          /\ metadata' = metadata
          /\ metaFile' = metaFile
          /\ wavs' = wavs
          /\ index' = index]_vars

C14_Witness ==
    /\ fault = "remove" /\ outcome = "DeleteFailed"
    /\ reviews["w1"].open /\ reviews["w1"].metadata # <<>>
    /\ metaFile # <<>>

\* number of rows of the ledger that name the file
RowsNaming(rows, filename) == Cardinality({k \in 1..Len(rows) : rows[k][1] = filename})

\* C15: a ledger row is destroyed only by an explicit, confirmed delete of
\* that row: whenever the main window's ledger or the ledger file loses a row
\* for some file, the step is a delete, in the review window, of the row
\* under its index, and that row names the file.
C15_RowsDestroyedOnlyByDelete ==
    [][\A idx \in 0..(MaxRows - 1) :
          (\/ RowsNaming(metadata', Filename(idx)) < RowsNaming(metadata, Filename(idx))
           \/ RowsNaming(load_metadata(metaFile'), Filename(idx))
                < RowsNaming(load_metadata(metaFile), Filename(idx)))
          => /\ DeleteStep
             /\ reviews["w1"].open
             /\ reviews["w1"].index < Len(reviews["w1"].metadata)
             /\ reviews["w1"].metadata[reviews["w1"].index + 1][1] = Filename(idx)]_vars

\* C16: the review's snapshot is private to the review: a row the main window
\* saves while the review is open does not appear in it, and while the review
\* stays open its snapshot changes only through a delete of its own, which
\* takes one row out.
C16_SnapshotPrivate ==
    [][(reviews["w1"].open /\ reviews'["w1"].open) =>
          /\ (recording /\ ~recording') =>
                reviews'["w1"].metadata = reviews["w1"].metadata
          /\ reviews'["w1"].metadata # reviews["w1"].metadata =>
                /\ DeleteStep
                /\ reviews'["w1"].metadata
                     = PopRow(reviews["w1"].metadata, reviews["w1"].index)]_vars

\* the main window has just saved a row the open review does not show
C16_Witness ==
    /\ outcome = "Saved"
    /\ reviews["w1"].open
    /\ ~is_recorded(reviews["w1"].metadata, 0)
    /\ is_recorded(metadata, 0)

\* C17: when the review window is closed, the main window takes the review's
\* snapshot as its ledger and looks again for the next unrecorded prompt:
\* after the close the main window's ledger equals the snapshot the review
\* held, and the cursor is on an unrecorded prompt or past the last one.
C17_CloseReloadsAndSkips ==
    [][(reviews["w1"].open /\ ~reviews'["w1"].open) =>
          /\ metadata' = reviews["w1"].metadata
          /\ index' >= Len(sentences) \/ ~is_recorded(metadata', index')]_vars

\* C18: the end-to-end session over "Hello world" and "Test two".
\* (1) Prompt 1 captured at amplitude 0.2: 001.wav is saved, the ledger and
\*     the ledger file hold the one row (001.wav, Hello world), the cursor is
\*     on prompt 2.
\* (2) Prompt 2 captured at amplitude 0.005: rejected as too quiet; files,
\*     ledger and cursor are unchanged.
\* (3) The entry is then deleted in the review window: the file is removed,
\*     the ledger and the ledger file are empty, and the cursor is back on
\*     prompt 1.
C18_EndToEnd ==
    [][LET row == <<Filename(0), HelloWorld>> IN
       /\ (StopStep /\ index = 0 /\ metadata = <<>> /\ wavs = {}
             /\ Processed = <<200>>) =>
            /\ outcome' = "Saved"
            /\ wavs' = {Filename(0)}
            /\ metadata' = <<row>>
            /\ load_metadata(metaFile') = <<row>>
            /\ index' = 1
       /\ (StopStep /\ index = 1 /\ metadata = <<row>> /\ wavs = {Filename(0)}
             /\ Processed = <<5>>) =>
            /\ outcome' = "TooQuiet"
            /\ wavs' = wavs /\ metadata' = metadata /\ metaFile' = metaFile
            /\ index' = 1
       /\ (DeleteStep /\ index = 1 /\ metadata = <<row>> /\ wavs = {Filename(0)}
             /\ outcome \in {"none", "NotConfirmed", "Played"}
             /\ Concatenate(audio_data) = <<5>>) =>
            /\ wavs' = {}
            /\ metadata' = <<>>
            /\ metaFile' = <<>>
            /\ index' = 0]_vars

MeterRead == led' \notin {led, "Ready"}

\* C20 as stated: the control thread reads the capture buffer only once the
\* stream is closed; no read of the buffer happens while the stream is open.
C20_ReadsOnlyAfterClose == [][MeterRead => stream # "active"]_vars

\* C20 amended: the control thread reads the capture buffer in two places.
\* The live meter reads it on a tick while the session is recording on an
\* active stream, and shows the band of the peak of what is buffered so far
\* without changing the buffer.  stop reads it only after the stream has been
\* closed: its result is decided on the buffer as it is left for good.
C20_ReadsMeterOrAfterClose ==
    [][/\ MeterRead =>
            /\ recording /\ stream = "active" /\ audio_data # <<>>
            /\ led' = Band(Peak(LastTenth(Concatenate(audio_data))))
            /\ audio_data' = audio_data
       /\ StopStep =>
            /\ stream' = "closed"
            /\ outcome' = "NoAudio" <=> audio_data' = <<>>
            /\ outcome' \in {"TooQuiet", "TooLoud"} =>
                 outcome' = LevelVerdict(Processed)
            /\ outcome' \in {"Saved", "SaveFailed"} =>
                 LevelVerdict(Processed) = "InRange"]_vars

\* the meter shows a band while the stream is still delivering
C20_Witness == recording /\ stream = "active" /\ led = "Good"

\* C21: the capture buffer is discarded when a stop has been processed,
\* whatever its result: whenever the session is idle after a stop, the
\* buffer is empty.
C21_BufferDiscardedAfterStop ==
    (~recording /\ outcome \in StopOutcomes) => audio_data = <<>>

\* C22: no meter band is shown while the session is not recording: a step
\* taken while idle leaves the LED as it is, a meter tick that fires while
\* idle takes itself off the timer and arms no other, and the only thing that
\* arms a tick from idle is a start that succeeds.  Hence the LED reads
\* "Ready" whenever the session is idle.
C22_NoBandOutsideRecording ==
    [][/\ ~recording =>
            /\ led' = led
            /\ pendingTicks' > pendingTicks => recording' /\ outcome' = "Started"
       /\ ~recording' => led' = "Ready"]_vars

\* the tick left pending by a stop has fired on an idle session that still
\* holds a loud capture: the LED shows no band and no tick is pending
C22_Witness ==
    /\ ~recording /\ outcome = "TooLoud"
    /\ audio_data # <<>>
    /\ pendingTicks = 0
    /\ led = "Ready"

\* C23: playing a review entry whose audio file is absent reports the missing
\* file to the caller and changes neither the snapshot, the main window's
\* ledger nor the ledger file.
C23_PlayReportsMissingFile ==
    [][(/\ PlayAudio("w1")
        /\ reviews["w1"].index < Len(reviews["w1"].metadata)
        /\ reviews["w1"].metadata[reviews["w1"].index + 1][1] \notin wavs)
          => /\ outcome' = "FileMissing"
             /\ reviews' = reviews
             /\ metadata' = metadata
             /\ metaFile' = metaFile]_vars

\* the review index points at an entry of the snapshot, or is 0 when the
\* snapshot is empty
ReviewIndexInside(rv) ==
    IF rv.metadata = <<>> THEN rv.index = 0
    ELSE rv.index >= 0 /\ rv.index < Len(rv.metadata)

\* C24: whatever review next, previous and confirmed delete commands have
\* been given, the review index is inside the snapshot; next and previous
\* move it by at most one, next at the last entry and previous at the first
\* leave it where it is, and nothing wraps around.
C24_ReviewIndexInside ==
    [][/\ ReviewIndexInside(reviews'["w1"])
       /\ ReviewNext("w1") =>
            /\ reviews'["w1"].index \in {reviews["w1"].index, reviews["w1"].index + 1}
            /\ reviews["w1"].index >= Len(reviews["w1"].metadata) - 1
                  => reviews' = reviews
       /\ ReviewPrevious("w1") =>
            /\ reviews'["w1"].index \in {reviews["w1"].index, reviews["w1"].index - 1}
            /\ reviews["w1"].index = 0 => reviews' = reviews]_vars

\* an entry of a full snapshot has just been deleted and the index is on the
\* last of the entries that are left
C24_Witness ==
    /\ outcome = "Deleted"
    /\ Len(reviews["w1"].metadata) = MaxRows - 1
    /\ reviews["w1"].index = MaxRows - 2

\* C25: a delete request the user does not confirm changes nothing: the
\* audio files, the review's snapshot and index, the main window's ledger and
\* cursor and the ledger file are as they were.
C25_DeclinedDeleteChangesNothing ==
    [][(outcome' = "NotConfirmed" /\ audio_data' = audio_data) =>
          /\ wavs' = wavs
          /\ reviews' = reviews
          /\ metadata' = metadata
          /\ metaFile' = metaFile
          /\ index' = index]_vars

C25_Witness ==
    /\ outcome = "NotConfirmed"
    /\ reviews["w1"].open /\ reviews["w1"].metadata # <<>>
    /\ reviews["w1"].metadata[reviews["w1"].index + 1][1] \in wavs

\* C26: started at any index from 0 to the number of prompts,
\* skip_to_next_unrecorded returns an index that is not before the start and
\* not past the number of prompts, every prompt from the start up to it is
\* recorded, and the prompt it returns, when there is one, is not recorded:
\* it is the first unrecorded index at or after the start, or the number of
\* prompts when there is none.
C26_SkipFindsFirstUnrecorded ==
    \A fromIndex \in 0..Len(sentences) :
        LET r == skip_to_next_unrecorded(metadata, sentences, fromIndex)
        IN /\ r >= fromIndex
           /\ r <= Len(sentences)
           /\ \A j \in fromIndex..(r - 1) : is_recorded(metadata, j)
           /\ r < Len(sentences) => ~is_recorded(metadata, r)

\* the program has been started on a ledger that holds the first two
\* prompts: the skip from 0 has passed both
C26_Witness ==
    /\ outcome = "none" /\ ~recording /\ stream = "None"
    /\ is_recorded(metadata, 0) /\ is_recorded(metadata, 1)
    /\ index = 2

\* C27: when the meter shows a band, the band is the one of the largest
\* magnitude among the last tenth of a second of buffered samples: quiet
\* below 0.05, good from 0.05 to below 0.7, loud from 0.7 to below 0.9,
\* clipping from 0.9 on; so 0.03 is quiet, 0.3 good, 0.8 loud, 0.95 clipping.
C27_MeterBands ==
    [][/\ MeterRead =>
            LET audio == Concatenate(audio_data)
                mags == {Abs(audio[i]) : i \in {k \in 1..Len(audio) :
                                                 k > Len(audio) - SAMPLE_RATE \div 10}}
            IN \A p \in mags :
                 (\A q \in mags : q <= p) =>
                    /\ led' = "Too quiet" <=> p < 50
                    /\ led' = "Good" <=> (p >= 50 /\ p < 700)
                    /\ led' = "Loud" <=> (p >= 700 /\ p < 900)
                    /\ led' = "Clipping!" <=> p >= 900
       /\ Band(30) = "Too quiet" /\ Band(300) = "Good"
       /\ Band(800) = "Loud" /\ Band(950) = "Clipping!"]_vars

\* the clipping sample of the long block is older than a tenth of a second:
\* the meter shows the band of the near silence that followed it
C27_Witness ==
    /\ recording /\ audio_data = <<LongBlock>>
    /\ led = "Too quiet"

\* the lines of the file that hold the delimiter
DelimitedLines(lines) ==
    {k \in 1..Len(lines) : \E i \in 1..Len(lines[k]) : lines[k][i] = "|"}

\* C28: loading the ledger skips every blank line and every line without the
\* delimiter and fails on none; every other line gives one row, in file
\* order: the row's filename holds no delimiter, and filename, delimiter and
\* text put together are the line without its surrounding white space.
C28_LoadSkipsMalformed ==
    LET kept == DelimitedLines(metaFile) IN
    /\ Len(metadata) = Cardinality(kept)
    /\ \A j \in 1..Len(metadata) :
          LET k == CHOOSE k \in kept : Cardinality({i \in kept : i < k}) = j - 1
          IN /\ metadata[j][1] \o <<"|">> \o metadata[j][2] = Strip(metaFile[k])
             /\ \A i \in 1..Len(metadata[j][1]) : metadata[j][1][i] # "|"

\* a file of three lines, the first without a delimiter, has been loaded as
\* two rows, the second with a delimiter inside its text
C28_Witness ==
    /\ sentences = PromptList("B")
    /\ Len(metaFile) = 3 /\ metaFile[1] = <<"x">>
    /\ Len(metadata) = 2
    /\ metadata[2] = <<Filename(1), <<"B", "|", "2">>>>

\* C29: trim_silence returns its input, sample for sample, when the smoothed
\* magnitude is over the threshold nowhere in it; this for every length, the
\* empty buffer and buffers longer than the minimum duration included.
C29_TrimKeepsSilentBuffer ==
    [][returned'.fn = "trim" =>
          LET audio == Concatenate(audio_data)
          IN (\A i \in 0..(Len(audio) - 1) : ~Exceeds(audio, i))
                => returned'.samples = audio]_vars

\* a buffer longer than the minimum duration, with samples over the threshold
\* but no smoothed value over it, has come back whole
C29_Witness ==
    /\ returned = [fn |-> "trim", samples |-> LongSparseBuffer]
    /\ audio_data = <<LongSparseBuffer>>
    /\ \A i \in 0..(Len(LongSparseBuffer) - 1) : ~Exceeds(LongSparseBuffer, i)

\* x > 0.95 for a single-precision x >= 0; 0.95 lies between 15938355 and
\* 15938356 times 2^-24
OverLimit(x) ==
    /\ x.m # 0
    /\ \/ x.e > 0 - 24
       \/ x.e = 0 - 24 /\ x.m * 20 > 19 * Top

\* C30: the largest magnitude of what normalize_audio returns is never over
\* 0.95, also when the scaling to the target level alone would exceed it, and
\* an input whose rms is 0 comes back unchanged.
C30_NormalizeNeverClips ==
    [][returned'.fn = "normalize" =>
          LET audio == Float32(Concatenate(audio_data))
          IN /\ ~OverLimit(MaxAbs(returned'.samples))
             /\ RootMeanSquare(audio) = Zero => returned'.samples = audio]_vars

\* C31: a capture is saved under the prompt it was started for: a stop that
\* reports a save has written the file named after the cursor of the start
\* and added the row with that file name and that prompt's text, whatever
\* skip and previous commands came in between.
C31_SavedUnderStartedPrompt ==
    [][(StopStep /\ outcome' = "Saved") =>
          /\ wavs' = wavs \cup {Filename(startIndex)}
          /\ metadata' = Append(metadata, <<Filename(startIndex),
                                           sentences[startIndex + 1]>>)]_vars

\* the two sequences hold the same rows the same number of times
SameRows(a, b) ==
    /\ Len(a) = Len(b)
    /\ \A k \in 1..Len(a) :
          Cardinality({j \in 1..Len(a) : a[j] = a[k]})
             = Cardinality({j \in 1..Len(b) : b[j] = a[k]})

\* the step is a save attempt of stop_recording or a confirmed delete_audio
LedgerStep ==
    \/ StopStep /\ outcome' \in {"Saved", "SaveFailed"}
    \/ /\ outcome' \in {"Deleted", "DeleteFailed", "DeleteCrashed"}
       /\ audio_data' = audio_data
       /\ reviews' # reviews \/ outcome' = "DeleteFailed"

\* C32: after every save and every review delete, whether it succeeded or
\* failed, the rows read back from the ledger file are the rows of the
\* in-memory ledger, each as many times; this also when the rewrite of the
\* file raised an error.
C32_FileMatchesMemory ==
    [][LedgerStep => SameRows(load_metadata(metaFile'), metadata')]_vars

\* how many times the row is in the sequence
Occurrences(rows, r) == Cardinality({k \in 1..Len(rows) : rows[k] = r})

\* C33: with two review windows open, a delete never brings a row back: no
\* row is in the in-memory ledger or in the ledger file more often after a
\* delete than before it, so a row deleted through one window does not
\* reappear through a later delete in the other.
C33_DeleteNeverRestoresRow ==
    [][DeleteStep =>
          /\ \A k \in 1..Len(metadata') :
                Occurrences(metadata', metadata'[k])
                   <= Occurrences(metadata, metadata'[k])
          /\ \A k \in 1..Len(metaFile') :
                Occurrences(metaFile', metaFile'[k])
                   <= Occurrences(metaFile, metaFile'[k])]_vars

\* C34: at most one update_meter callback is scheduled at any time, whatever
\* the sequence of starts and stops, a stop followed by a start before the
\* pending tick has fired included.
C34_AtMostOneTickPending == pendingTicks <= 1

\* C35: a stop that finds the capture buffer empty, no block having been
\* delivered since the start, closes the stream and leaves the session idle;
\* it writes no file and changes neither the ledger, in memory or on disk,
\* nor the cursor.
C35_EmptyStopChangesNothing ==
    [][(StopStep /\ audio_data' = <<>>) =>
          /\ outcome' = "NoAudio"
          /\ stream' = "closed"
          /\ openStreams' = openStreams - 1
          /\ ~recording'
          /\ wavs' = wavs
          /\ metadata' = metadata
          /\ metaFile' = metaFile
          /\ index' = index]_vars

\* a capture was saved, the next one was stopped before any block arrived
C35_Witness ==
    /\ outcome = "NoAudio"
    /\ audio_data = <<>>
    /\ ~recording
    /\ stream = "closed"
    /\ openStreams = 0
    /\ Len(metadata) = 1
    /\ index = 1

\* the step is a start command with the cursor at or past the end of the list
StartAtEnd ==
    /\ ~recording
    /\ AllDone(sentences, index)
    /\ ToggleRecording(Faults, Blocks)

\* every file in WAV_DIR is named after a prompt of the list
FilesWithinList(files, sents) ==
    \A f \in files : \E i \in 0..(Len(sents) - 1) : f = Filename(i)

\* C36: a start with the cursor at or past the end of the prompt list does
\* nothing: the session stays idle, no stream is opened, the buffer is kept;
\* and no stop ever writes a file numbered beyond the number of prompts.
C36_StartAtEndIsNoOp ==
    [][/\ StartAtEnd =>
             /\ ~recording'
             /\ stream' = stream
             /\ openStreams' = openStreams
             /\ audio_data' = audio_data
             /\ wavs' = wavs
       /\ FilesWithinList(wavs', sentences')]_vars

====
